---------------------------- MODULE Spec2Model ----------------------------
(***************************************************************************)
(* Model of the release helper scripts                                     *)
(*   scripts/release/generate_release_highlights_prompt.py                 *)
(*   scripts/release/render_release_body.py                                *)
(*                                                                         *)
(* Strings that the code inspects character by character (paths, patch     *)
(* texts, changelog lines) are sequences of tokens.  A token is one        *)
(* character ("/", " ", "x") or a literal word the code looks for          *)
(* ("docs", "README"); a word token stands for exactly that run of         *)
(* characters.  Opaque strings (tags, SHAs) are TLA+ strings.              *)
(***************************************************************************)
EXTENDS Integers, Sequences, FiniteSets, TLC

VARIABLES
    pc,                 \* position of the running function
    \* is_ignored_path
    path,               \* argument
    ignored_result,     \* return value
    \* select_previous_release_tag
    releases,           \* argument: the release list
    current_tag,        \* argument
    selected_tag,       \* return value
    \* curate_commit_payloads
    max_patch_chars,    \* argument
    commit_count,       \* len(commit_payloads)
    payloads,           \* the commit payloads the outer loop has consumed
    files_seen,         \* the file entries of the current commit consumed
    shipping_files,     \* local of the outer loop body
    ignored_files,      \* local of the outer loop body
    remaining_patch_budget,
    curated,
    stats,
    \* main and load_release_delta
    target,             \* the resolved ReleaseTarget
    max_commits,        \* args.max_commits
    output_context_json,\* whether args.output_context_json is given
    api_log,            \* the GitHub API calls made, in order
    previous_tag,
    compare_url,
    commit_shas,
    unique_shas,
    fetched,            \* len(commit_payloads) in main
    writes,             \* the output files written, in order
    exit_code,          \* main's return value
    \* build_highlights
    tag,                \* argument
    changelog,          \* argument, as its lines
    override_bullets,   \* argument (None is the empty list here: both falsy)
    highlights,         \* return value
    \* GitHubClient.list_releases
    per_page,           \* argument
    max_pages,          \* argument
    page_log,           \* the page requests made, in order, with their responses
    listed,             \* the local list "releases"
    list_result,        \* return value
    \* curate_commit_payloads followed by build_prompt
    commit_payloads,    \* argument of curate_commit_payloads
    prompt_budget,      \* argument max_patch_chars
    prompt_context,     \* the curated commits handed to build_prompt
    prompt,             \* return value of build_prompt, as its lines
    \* parse_release_url
    url,                \* argument
    url_result,         \* the returned target
    url_error,          \* the exception raised, or None
    \* extract_change_bullets
    bullet_limit,       \* argument limit
    change_bullets      \* return value

pathVars == <<path, ignored_result>>
selectVars == <<releases, current_tag, selected_tag>>
curateVars == <<max_patch_chars, commit_count, payloads, files_seen,
                shipping_files, ignored_files, remaining_patch_budget,
                curated, stats>>

mainVars == <<target, max_commits, output_context_json, api_log, previous_tag,
              compare_url, commit_shas, unique_shas, fetched, writes, exit_code>>

highlightVars == <<tag, changelog, override_bullets, highlights>>

pagesVars == <<per_page, max_pages, page_log, listed, list_result>>

promptVars == <<commit_payloads, prompt_budget, prompt_context, prompt>>

urlVars == <<url, url_result, url_error>>

bulletVars == <<bullet_limit, change_bullets>>

vars == <<pc, pathVars, selectVars, curateVars, mainVars, highlightVars,
         pagesVars, promptVars, urlVars, bulletVars>>

\* Python's None, and the value of a variable not assigned yet.
None == "None"
Unset == "unset"

--------------------------------------------------------------------------
\* Generic sequence helpers.

Range(s) == {s[i] : i \in 1..Len(s)}

\* All sequences over S of length 0..n.
BoundedSeq(S, n) == UNION {[1..k -> S] : k \in 0..n}

\* s[:n] of Python for n >= 0.
Take(s, n) == SubSeq(s, 1, IF n < Len(s) THEN n ELSE Len(s))

\* s[n:] of Python for n >= 0.
Drop(s, n) == SubSeq(s, n + 1, Len(s))

\* s.startswith(prefix)
StartsWith(s, prefix) ==
    /\ Len(prefix) <= Len(s)
    /\ SubSeq(s, 1, Len(prefix)) = prefix

Min(a, b) == IF a < b THEN a ELSE b
Max(a, b) == IF a > b THEN a ELSE b

--------------------------------------------------------------------------
\* Bounds of the model.

MaxPathLen == 4
MaxReleases == 3
MaxCommits == 2         \* commit payloads in one curation
MaxFileEntries == 3     \* file entries over all commits of one curation
MaxPatchLen == 2        \* characters of one patch text
MaxBudget == 2          \* --max-patch-chars
MaxShas == 3            \* commits in a compare or list-commits response
MaxCommitsLimit == 2    \* --max-commits
MaxLines == 5           \* lines of a changelog
MaxOverride == 5        \* bullets of a highlights-override file

--------------------------------------------------------------------------
\* is_ignored_path and its glob patterns.

Slash == "/"
Star == "*"

IGNORED_PATH_PATTERNS ==
    << <<".github", "/", "workflows", "/", "*">>,
       <<".github", "/", "actions", "/", "*">>,
       <<"scripts", "/", "release", "/", "*">>,
       <<"docs", "/", "*">>,
       <<"charts", "/", "*", "/", "README", "*">> >>

\* str.upper() on one token: only the case of the README word matters to
\* the code, every other token is its own upper-case form here.
upper_token(t) == IF t = "readme" THEN "README" ELSE t

upper(s) == [i \in 1..Len(s) |-> upper_token(s[i])]

\* str.strip("/"): leading and trailing slashes removed.
RECURSIVE lstrip_slash(_)
lstrip_slash(s) ==
    IF s # <<>> /\ Head(s) = Slash THEN lstrip_slash(Tail(s)) ELSE s

RECURSIVE rstrip_slash(_)
rstrip_slash(s) ==
    IF s # <<>> /\ s[Len(s)] = Slash
    THEN rstrip_slash(SubSeq(s, 1, Len(s) - 1))
    ELSE s

strip_slash(s) == rstrip_slash(lstrip_slash(s))

\* s.rsplit("/", 1)[-1]: what follows the last slash (all of s if none).
RECURSIVE basename(_)
basename(s) ==
    IF \E i \in 1..Len(s) : s[i] = Slash
    THEN basename(Tail(s))
    ELSE s

\* fnmatch.fnmatch(text, pattern) on a POSIX system: case-sensitive, "*"
\* matches any run of characters, slashes included.
RECURSIVE fnmatch(_, _)
fnmatch(text, pattern) ==
    IF pattern = <<>> THEN text = <<>>
    ELSE IF Head(pattern) = Star
    THEN \E k \in 0..Len(text) : fnmatch(Drop(text, k), Tail(pattern))
    ELSE /\ text # <<>>
         /\ Head(text) = Head(pattern)
         /\ fnmatch(Tail(text), Tail(pattern))

\* Mutant: the README test made case-sensitive.
is_ignored_path_case_sensitive(p) ==
    LET normalized == strip_slash(p)
        base == basename(normalized)
    IN  \/ StartsWith(base, <<"README">>)
        \/ StartsWith(normalized, <<"docs", "/">>)
        \/ \E i \in 1..Len(IGNORED_PATH_PATTERNS) :
               fnmatch(normalized, IGNORED_PATH_PATTERNS[i])

is_ignored_path(p) ==
    LET normalized == strip_slash(p)
        base == basename(normalized)
    IN  \/ StartsWith(upper(base), <<"README">>)
        \/ StartsWith(normalized, <<"docs", "/">>)
        \/ \E i \in 1..Len(IGNORED_PATH_PATTERNS) :
               fnmatch(normalized, IGNORED_PATH_PATTERNS[i])

\* Input paths: a directory prefix followed by up to MaxPathLen tokens.
PathAlphabet == {"/", "docs", "README", "readme", "charts", "x"}

PathPrefixes ==
    { <<>>,
      <<".github", "/", "workflows", "/">>,
      <<".github", "/", "actions", "/">>,
      <<".github", "/">>,
      <<"scripts", "/", "release", "/">>,
      <<"scripts", "/">>,
      <<"charts", "/", "x", "/">> }

Paths == {pre \o s : pre \in PathPrefixes, s \in BoundedSeq(PathAlphabet, MaxPathLen)}

SelectIdle ==
    /\ releases = <<>>
    /\ current_tag = Unset
    /\ selected_tag = Unset

PathIdle ==
    /\ path = <<>>
    /\ ignored_result = Unset

NoStats ==
    [total_commits |-> 0, commits_with_shipping_changes |-> 0,
     commits_ignored_only |-> 0, shipping_files |-> 0, ignored_files |-> 0]

CurateIdle ==
    /\ max_patch_chars = 0
    /\ commit_count = 0
    /\ payloads = <<>>
    /\ files_seen = <<>>
    /\ shipping_files = <<>>
    /\ ignored_files = <<>>
    /\ remaining_patch_budget = 0
    /\ curated = <<>>
    /\ stats = NoStats

NoTarget == [repo |-> <<>>, tag |-> ""]

MainIdle ==
    /\ target = NoTarget
    /\ max_commits = 0
    /\ output_context_json = FALSE
    /\ api_log = <<>>
    /\ previous_tag = None
    /\ compare_url = ""
    /\ commit_shas = <<>>
    /\ unique_shas = <<>>
    /\ fetched = 0
    /\ writes = <<>>
    /\ exit_code = None

HighlightsIdle ==
    /\ tag = ""
    /\ changelog = <<>>
    /\ override_bullets = <<>>
    /\ highlights = <<>>

PagesIdle ==
    /\ per_page = 0
    /\ max_pages = 0
    /\ page_log = <<>>
    /\ listed = <<>>
    /\ list_result = <<>>

PromptIdle ==
    /\ commit_payloads = <<>>
    /\ prompt_budget = 0
    /\ prompt_context = <<>>
    /\ prompt = <<>>

NoUrlResult == [repo |-> <<>>, tag |-> <<>>]

UrlIdle ==
    /\ url = <<>>
    /\ url_result = NoUrlResult
    /\ url_error = None

BulletsIdle ==
    /\ bullet_limit = 0
    /\ change_bullets = <<>>

InitPath ==
    /\ pc = "is_ignored_path"
    /\ path \in Paths
    /\ ignored_result = Unset
    /\ SelectIdle
    /\ CurateIdle
    /\ MainIdle
    /\ HighlightsIdle
    /\ PagesIdle
    /\ PromptIdle
    /\ UrlIdle
    /\ BulletsIdle

IsIgnoredPath ==
    /\ pc = "is_ignored_path"
    /\ ignored_result' = is_ignored_path(path)
    /\ pc' = "path_done"
    /\ UNCHANGED <<pagesVars, promptVars, urlVars, bulletVars,
                   highlightVars, path, selectVars, curateVars, mainVars>>

NextPath == IsIgnoredPath

SpecPath == InitPath /\ [][NextPath]_vars

--------------------------------------------------------------------------
\* C9: what the specification says is_ignored_path computes.

\* Split on "/" (str.split("/")).
RECURSIVE Split(_)
Split(s) ==
    IF \A i \in 1..Len(s) : s[i] # Slash THEN <<s>>
    ELSE LET k == CHOOSE i \in 1..Len(s) :
                      s[i] = Slash /\ \A j \in 1..(i - 1) : s[j] # Slash
         IN  <<SubSeq(s, 1, k - 1)>> \o Split(Drop(s, k))

Segments(p) == Split(strip_slash(p))

\* The path lies below a directory named docs, wherever that directory is.
UnderSomeDocsDirectory(p) ==
    \E i \in 1..(Len(Segments(p)) - 1) : Segments(p)[i] = <<"docs">>

\* The path lies below the docs directory at the root of the repository.
UnderTopLevelDocs(p) ==
    /\ Len(Segments(p)) >= 2
    /\ Segments(p)[1] = <<"docs">>

\* The last path component starts with README, in any letter case.
ReadmeBasename(p) ==
    LET last == Segments(p)[Len(Segments(p))]
    IN  /\ last # <<>>
        /\ last[1] \in {"README", "readme"}

\* The path, slashes trimmed, matches one of the five configured globs,
\* each spelled out: four "directory/*" prefixes, and charts/*/README*.
MatchesConfiguredGlob(p) ==
    LET n == strip_slash(p)
    IN  \/ StartsWith(n, <<".github", "/", "workflows", "/">>)
        \/ StartsWith(n, <<".github", "/", "actions", "/">>)
        \/ StartsWith(n, <<"scripts", "/", "release", "/">>)
        \/ StartsWith(n, <<"docs", "/">>)
        \/ /\ StartsWith(n, <<"charts", "/">>)
           /\ \E k \in 3..(Len(n) - 1) : n[k] = Slash /\ n[k + 1] = "README"

\* C9 as stated: is_ignored_path is true exactly for the paths under a docs
\* directory at any depth, the README* basenames and the glob matches.
C9_AnyDocsDirectory ==
    pc = "path_done" =>
        ignored_result = ( \/ UnderSomeDocsDirectory(path)
                           \/ ReadmeBasename(path)
                           \/ MatchesConfiguredGlob(path) )

\* C9 amended: is_ignored_path is true exactly for the paths under the
\* top-level docs directory (at any depth below it), the paths whose
\* basename starts with README in any letter case, and the paths matching a
\* configured glob; it is false for every other path.
C9_IgnoredPathClassification ==
    pc = "path_done" =>
        ignored_result = ( \/ UnderTopLevelDocs(path)
                           \/ ReadmeBasename(path)
                           \/ MatchesConfiguredGlob(path) )

\* A lower-case readme below a nested directory has been classified ignored.
C9_Witness ==
    /\ pc = "path_done"
    /\ path = <<"scripts", "/", "x", "/", "readme", "x">>
    /\ ignored_result = TRUE

--------------------------------------------------------------------------
\* select_previous_release_tag.

\* A release of the API: its draft flag and its tag_name ("" when the key is
\* missing, null or empty: all are falsy to the filter).
TagNames == {"v1", "v2"}
ReleaseSet == [draft : BOOLEAN, tag_name : TagNames \cup {""}]
\* "v9" is a tag no listed release carries.
CurrentTags == TagNames \cup {"v9"}

\* The list comprehension: not drafts, with a tag, order kept.
filtered_releases(rs) ==
    SelectSeq(rs, LAMBDA r : ~r.draft /\ r.tag_name # "")

\* The first loop: the index of the first release tagged current (0: none).
RECURSIVE find_current(_, _, _)
find_current(filtered, current, index) ==
    IF index > Len(filtered) THEN 0
    ELSE IF filtered[index].tag_name = current THEN index
    ELSE find_current(filtered, current, index + 1)

\* The second loop: the first tag that differs from current.
RECURSIVE first_other_tag(_, _, _)
first_other_tag(filtered, current, index) ==
    IF index > Len(filtered) THEN None
    ELSE IF filtered[index].tag_name # current THEN filtered[index].tag_name
    ELSE first_other_tag(filtered, current, index + 1)

\* Mutant: the release before the current one is taken, not the one after.
select_previous_release_tag_newer(rs, current) ==
    LET filtered == filtered_releases(rs)
        index == find_current(filtered, current, 1)
    IN  IF index # 0
        THEN IF index - 1 >= 1 THEN filtered[index - 1].tag_name ELSE None
        ELSE first_other_tag(filtered, current, 1)

select_previous_release_tag(rs, current) ==
    LET filtered == filtered_releases(rs)
        index == find_current(filtered, current, 1)
    IN  IF index # 0
        THEN IF index + 1 <= Len(filtered)
             THEN filtered[index + 1].tag_name
             ELSE None
        ELSE first_other_tag(filtered, current, 1)

InitSelect ==
    /\ pc = "select_previous_release_tag"
    /\ releases \in BoundedSeq(ReleaseSet, MaxReleases)
    /\ current_tag \in CurrentTags
    /\ selected_tag = Unset
    /\ PathIdle
    /\ CurateIdle
    /\ MainIdle
    /\ HighlightsIdle
    /\ PagesIdle
    /\ PromptIdle
    /\ UrlIdle
    /\ BulletsIdle

SelectPreviousReleaseTag ==
    /\ pc = "select_previous_release_tag"
    /\ selected_tag' = select_previous_release_tag(releases, current_tag)
    /\ pc' = "select_done"
    /\ UNCHANGED <<pagesVars, promptVars, urlVars, bulletVars,
                   highlightVars, pathVars, releases, current_tag, curateVars, mainVars>>

NextSelect == SelectPreviousReleaseTag

SpecSelect == InitSelect /\ [][NextSelect]_vars

\* The positions of the release list that are neither drafts nor untagged.
Published(rs) == {i \in 1..Len(rs) : rs[i].draft = FALSE /\ rs[i].tag_name # ""}

\* The published positions carrying tag t, and those carrying another tag.
TaggedAt(rs, t) == {i \in Published(rs) : rs[i].tag_name = t}
OtherAt(rs, t) == {i \in Published(rs) : rs[i].tag_name # t}

Least(S) == CHOOSE i \in S : \A j \in S : i <= j

\* C1: on the sub-list of published releases, the result is the tag right
\* after the first occurrence of the current tag (None when that occurrence
\* is last); when the current tag does not occur, the first tag of the
\* sub-list that differs from it (None when there is none).
C1_PreviousReleaseTag ==
    pc = "select_done" =>
        IF TaggedAt(releases, current_tag) # {}
        THEN LET first == Least(TaggedAt(releases, current_tag))
                 later == {i \in Published(releases) : i > first}
             IN  IF later = {} THEN selected_tag = None
                 ELSE selected_tag = releases[Least(later)].tag_name
        ELSE IF OtherAt(releases, current_tag) = {} THEN selected_tag = None
        ELSE selected_tag = releases[Least(OtherAt(releases, current_tag))].tag_name

\* The current tag occurs twice among published releases, a draft sits
\* between its first occurrence and the release selected as previous.
C1_Witness ==
    /\ pc = "select_done"
    /\ releases = << [draft |-> FALSE, tag_name |-> "v1"],
                     [draft |-> TRUE, tag_name |-> "v2"],
                     [draft |-> FALSE, tag_name |-> "v1"] >>
    /\ current_tag = "v1"
    /\ selected_tag = "v1"

--------------------------------------------------------------------------
\* truncate_patch and curate_commit_payloads.

\* "\n... [truncated]", character by character.
TRUNCATION_MARKER ==
    <<"\n", ".", ".", ".", " ", "[", "t", "r", "u", "n", "c", "a", "t", "e", "d", "]">>

\* Mutant: the guard tests remaining_chars < 0, so a budget of exactly 0
\* still emits a (marker-only) snippet.
truncate_patch_zero_budget(text, remaining_chars) ==
    IF remaining_chars < 0 \/ text = <<>>
    THEN [snippet |-> <<>>, remaining |-> remaining_chars]
    ELSE LET cut == Take(text, remaining_chars)
             snippet == IF Len(text) > Len(cut)
                        THEN cut \o TRUNCATION_MARKER
                        ELSE cut
         IN  [snippet |-> snippet,
              remaining |-> Max(0, remaining_chars - Len(snippet))]

\* Mutant: a truncated snippet is not charged to the budget.
truncate_patch_uncharged(text, remaining_chars) ==
    IF remaining_chars <= 0 \/ text = <<>>
    THEN [snippet |-> <<>>, remaining |-> remaining_chars]
    ELSE LET cut == Take(text, remaining_chars)
         IN  IF Len(text) > Len(cut)
             THEN [snippet |-> cut \o TRUNCATION_MARKER, remaining |-> remaining_chars]
             ELSE [snippet |-> cut, remaining |-> Max(0, remaining_chars - Len(cut))]

truncate_patch(text, remaining_chars) ==
    IF remaining_chars <= 0 \/ text = <<>>
    THEN [snippet |-> <<>>, remaining |-> remaining_chars]
    ELSE LET cut == Take(text, remaining_chars)
             snippet == IF Len(text) > Len(cut)
                        THEN cut \o TRUNCATION_MARKER
                        ELSE cut
         IN  [snippet |-> snippet,
              remaining |-> Max(0, remaining_chars - Len(snippet))]

\* Mutant: the "continue" after ignored_files.append is missing, so an
\* ignored file is also curated as a shipping file.
curate_file_no_continue(acc, f) ==
    IF ~f.is_dict THEN acc
    ELSE IF f.filename = <<>> THEN acc
    ELSE LET t == truncate_patch(f.patch, acc.budget)
             ign == IF is_ignored_path(f.filename)
                    THEN Append(acc.ignored_files, f.filename)
                    ELSE acc.ignored_files
         IN  [shipping_files |->
                  Append(acc.shipping_files,
                         [filename |-> f.filename, patch |-> t.snippet]),
              ignored_files |-> ign,
              budget |-> t.remaining]

\* The body of the inner loop for one entry f of the files list; acc holds
\* shipping_files, ignored_files and the remaining budget.
curate_file(acc, f) ==
    IF ~f.is_dict THEN acc
    ELSE IF f.filename = <<>> THEN acc
    ELSE IF is_ignored_path(f.filename)
    THEN [acc EXCEPT !.ignored_files = Append(@, f.filename)]
    ELSE LET t == truncate_patch(f.patch, acc.budget)
         IN  [acc EXCEPT
                 !.shipping_files =
                     Append(@, [filename |-> f.filename, patch |-> t.snippet]),
                 !.budget = t.remaining]

\* Mutant: every commit is appended to curated, shipping files or not.
finish_commit_keep_all(cur, st, sha, shipping, ignored) ==
    LET counted == [st EXCEPT
                       !.ignored_files = @ + Len(ignored),
                       !.shipping_files = @ + Len(shipping)]
    IN  [curated |-> Append(cur, [sha |-> sha,
                                  shipping_files |-> shipping,
                                  ignored_files |-> ignored]),
         stats |-> IF shipping # <<>>
                   THEN [counted EXCEPT !.commits_with_shipping_changes = @ + 1]
                   ELSE [counted EXCEPT !.commits_ignored_only = @ + 1]]

\* The end of the outer loop body: the counters, and the commit appended to
\* curated when it has a shipping file.
finish_commit(cur, st, sha, shipping, ignored) ==
    LET counted == [st EXCEPT
                       !.ignored_files = @ + Len(ignored),
                       !.shipping_files = @ + Len(shipping)]
    IN  IF shipping # <<>>
        THEN [curated |-> Append(cur, [sha |-> sha,
                                       shipping_files |-> shipping,
                                       ignored_files |-> ignored]),
              stats |-> [counted EXCEPT !.commits_with_shipping_changes = @ + 1]]
        ELSE [curated |-> cur,
              stats |-> [counted EXCEPT !.commits_ignored_only = @ + 1]]

\* Patch texts: the first n characters of "abc...", for the empty patch and
\* the two longest ones.
PatchChars == <<"a", "b", "c", "d", "e", "f">>
PatchTexts == {SubSeq(PatchChars, 1, n) : n \in {0, MaxPatchLen - 1, MaxPatchLen}}

\* The entries a files list can hold: something that is not a dict, a dict
\* without a filename, a file under docs/, and a source file with a patch.
FileEntries ==
    { [is_dict |-> FALSE, filename |-> <<>>, patch |-> <<>>],
      [is_dict |-> TRUE, filename |-> <<>>, patch |-> <<"a">>],
      [is_dict |-> TRUE, filename |-> <<"docs", "/", "x">>, patch |-> <<"a">>] }
    \cup [is_dict : {TRUE}, filename : {<<"x">>}, patch : PatchTexts]

RECURSIVE SumLen(_)
SumLen(seqs) == IF seqs = <<>> THEN 0 ELSE Len(Head(seqs)) + SumLen(Tail(seqs))

\* File entries consumed so far, over all commits.
EntriesSeen ==
    SumLen([i \in 1..Len(payloads) |-> payloads[i].files]) + Len(files_seen)

InitCurate ==
    /\ pc = "curate_commit_payloads"
    /\ max_patch_chars \in -1..MaxBudget
    /\ commit_count \in 0..MaxCommits
    /\ payloads = <<>>
    /\ files_seen = <<>>
    /\ shipping_files = <<>>
    /\ ignored_files = <<>>
    /\ remaining_patch_budget = 0
    /\ curated = <<>>
    /\ stats = NoStats
    /\ PathIdle
    /\ SelectIdle
    /\ MainIdle
    /\ HighlightsIdle
    /\ PagesIdle
    /\ PromptIdle
    /\ UrlIdle
    /\ BulletsIdle

\* Lines 257-266: the locals before the loop.
CurateBegin ==
    /\ pc = "curate_commit_payloads"
    /\ curated' = <<>>
    /\ stats' = [NoStats EXCEPT !.total_commits = commit_count]
    /\ remaining_patch_budget' = max_patch_chars
    /\ pc' = "commit_loop"
    /\ UNCHANGED <<pagesVars, promptVars, urlVars, bulletVars,
                   highlightVars, pathVars, selectVars, mainVars, max_patch_chars, commit_count,
                   payloads, files_seen, shipping_files, ignored_files>>

\* The outer loop takes the next payload (a files value that is not a list
\* is replaced by the empty list: a commit without file entries).
CurateNextCommit ==
    /\ pc = "commit_loop"
    /\ Len(payloads) < commit_count
    /\ files_seen' = <<>>
    /\ shipping_files' = <<>>
    /\ ignored_files' = <<>>
    /\ pc' = "file_loop"
    /\ UNCHANGED <<pagesVars, promptVars, urlVars, bulletVars,
                   highlightVars, pathVars, selectVars, mainVars, max_patch_chars, commit_count,
                   payloads, remaining_patch_budget, curated, stats>>

\* One iteration of the inner loop, on the next entry of the files list.
CurateFile ==
    /\ pc = "file_loop"
    /\ EntriesSeen < MaxFileEntries
    /\ \E f \in FileEntries :
          LET acc == curate_file([shipping_files |-> shipping_files,
                                  ignored_files |-> ignored_files,
                                  budget |-> remaining_patch_budget], f)
          IN  /\ files_seen' = Append(files_seen, f)
              /\ shipping_files' = acc.shipping_files
              /\ ignored_files' = acc.ignored_files
              /\ remaining_patch_budget' = acc.budget
    /\ UNCHANGED <<pagesVars, promptVars, urlVars, bulletVars,
                   highlightVars, pc, pathVars, selectVars, mainVars, max_patch_chars, commit_count,
                   payloads, curated, stats>>

\* The files list is exhausted: lines 307-323.  The sha of the i-th payload
\* is i.
CurateEndCommit ==
    /\ pc = "file_loop"
    /\ LET sha == Len(payloads) + 1
           done == finish_commit(curated, stats, sha, shipping_files, ignored_files)
       IN  /\ curated' = done.curated
           /\ stats' = done.stats
           /\ payloads' = Append(payloads, [sha |-> sha, files |-> files_seen])
    /\ pc' = "commit_loop"
    /\ UNCHANGED <<pagesVars, promptVars, urlVars, bulletVars,
                   highlightVars, pathVars, selectVars, mainVars, max_patch_chars, commit_count,
                   files_seen, shipping_files, ignored_files,
                   remaining_patch_budget>>

CurateReturn ==
    /\ pc = "commit_loop"
    /\ Len(payloads) = commit_count
    /\ pc' = "curate_done"
    /\ UNCHANGED <<pagesVars, promptVars, urlVars, bulletVars,
                   highlightVars, pathVars, selectVars, mainVars, curateVars>>

NextCurate ==
    \/ CurateBegin
    \/ CurateNextCommit
    \/ CurateFile
    \/ CurateEndCommit
    \/ CurateReturn

SpecCurate == InitCurate /\ [][NextCurate]_vars

--------------------------------------------------------------------------
\* C2 - C5: curation.

\* The shipping files curated so far: those of the curated commits, and
\* those of the commit being processed.
AllShippingFiles ==
    LET Flat[i \in 0..Len(curated)] ==
            IF i = 0 THEN <<>> ELSE Flat[i - 1] \o curated[i].shipping_files
    IN  Flat[Len(curated)] \o (IF pc = "file_loop" THEN shipping_files ELSE <<>>)

TotalPatchChars ==
    SumLen([i \in 1..Len(AllShippingFiles) |-> AllShippingFiles[i].patch])

\* C2: with max_patch_chars >= 0, the patch characters curated over all
\* commits never exceed max_patch_chars.
C2_TotalPatchCharsWithinBudget ==
    (pc \in {"commit_loop", "file_loop", "curate_done"} /\ max_patch_chars >= 0)
        => TotalPatchChars <= max_patch_chars

\* A step of the inner loop that curated one more shipping file.
ShippingFileCurated == Len(shipping_files') > Len(shipping_files)

Curating == pc \in {"commit_loop", "file_loop"}

\* C3: the budget is one counter for the whole pass: only curating a shipping
\* file changes it, and never upwards; once it is <= 0, every shipping file
\* curated afterwards gets the empty patch and the budget stays as it is.
C3_BudgetNeverGrowsAndExhausts ==
    [][ Curating =>
          /\ remaining_patch_budget' <= remaining_patch_budget
          /\ ~ShippingFileCurated
                => remaining_patch_budget' = remaining_patch_budget
          /\ (remaining_patch_budget <= 0 /\ ShippingFileCurated)
                => /\ shipping_files'[Len(shipping_files')].patch = <<>>
                   /\ remaining_patch_budget' = remaining_patch_budget ]_vars

\* A positive budget was used up by an earlier commit, and a shipping file
\* of a later commit that has a patch text was curated with an empty patch.
C3_Witness ==
    /\ pc = "file_loop"
    /\ max_patch_chars > 0
    /\ remaining_patch_budget = 0
    /\ Len(curated) >= 1
    /\ files_seen # <<>>
    /\ files_seen[Len(files_seen)].filename = <<"x">>
    /\ files_seen[Len(files_seen)].patch # <<>>
    /\ shipping_files # <<>>
    /\ shipping_files[Len(shipping_files)].patch = <<>>

\* An entry of a files list that the curation can classify: a dict with a
\* non-empty filename.
NamedFile(f) == f.is_dict /\ f.filename # <<>>

NamedFiles(files) == SelectSeq(files, NamedFile)

Filenames(files) == [i \in 1..Len(files) |-> files[i].filename]

AllEntries ==
    LET Flat[i \in 0..Len(payloads)] ==
            IF i = 0 THEN <<>> ELSE Flat[i - 1] \o payloads[i].files
    IN  Flat[Len(payloads)]

\* C4 as stated: every entry of a commit's files list is in exactly one of
\* the commit's shipping files and ignored files, and the two file counters
\* add up to the number of file entries.
C4_EveryEntryCounted ==
    /\ pc = "file_loop"
         => Len(shipping_files) + Len(ignored_files) = Len(files_seen)
    /\ pc = "curate_done"
         => stats.shipping_files + stats.ignored_files = Len(AllEntries)

\* C4 amended: the entries of a commit's files list that are dicts with a
\* non-empty filename are partitioned, in order, into the commit's ignored
\* files (is_ignored_path holds for the filename) and its shipping files (it
\* does not); the other entries are in neither.  The two file counters add
\* up to the number of such entries over all commits.
C4_NamedFilesPartitioned ==
    /\ pc = "file_loop" =>
         /\ Filenames(shipping_files)
              = SelectSeq(Filenames(NamedFiles(files_seen)),
                          LAMBDA n : ~is_ignored_path(n))
         /\ ignored_files
              = SelectSeq(Filenames(NamedFiles(files_seen)), is_ignored_path)
    /\ pc \in {"commit_loop", "curate_done"} =>
         /\ \A i \in 1..Len(curated) :
               LET files == payloads[curated[i].sha].files
               IN  /\ Filenames(curated[i].shipping_files)
                        = SelectSeq(Filenames(NamedFiles(files)),
                                    LAMBDA n : ~is_ignored_path(n))
                   /\ curated[i].ignored_files
                        = SelectSeq(Filenames(NamedFiles(files)), is_ignored_path)
         /\ stats.ignored_files
              = Len(SelectSeq(Filenames(NamedFiles(AllEntries)), is_ignored_path))
         /\ stats.shipping_files + stats.ignored_files
              = Len(NamedFiles(AllEntries))

\* A finished curation saw a shipping file, an ignored file and an entry
\* without a filename.
C4_Witness ==
    /\ pc = "curate_done"
    /\ stats.shipping_files >= 1
    /\ stats.ignored_files >= 1
    /\ Len(AllEntries) > Len(NamedFiles(AllEntries))

\* The payload has an entry that curation keeps as a shipping file.
HasShippingFile(payload) ==
    \E i \in 1..Len(payload.files) :
        /\ NamedFile(payload.files[i])
        /\ ~is_ignored_path(payload.files[i].filename)

\* C5: the curated commits are exactly the consumed commits with a shipping
\* file, in input order; commits_with_shipping_changes counts them,
\* commits_ignored_only counts the others, and at the end the two add up to
\* total_commits.
C5_CuratedIffShippingFile ==
    pc \in {"commit_loop", "curate_done"} =>
        /\ [i \in 1..Len(curated) |-> curated[i].sha]
             = [i \in 1..Len(SelectSeq(payloads, HasShippingFile)) |->
                    SelectSeq(payloads, HasShippingFile)[i].sha]
        /\ \A i \in 1..Len(curated) : curated[i].shipping_files # <<>>
        /\ stats.commits_with_shipping_changes = Len(curated)
        /\ stats.commits_ignored_only = Len(payloads) - Len(curated)
        /\ pc = "curate_done" =>
              stats.commits_with_shipping_changes + stats.commits_ignored_only
                  = stats.total_commits

\* A finished curation dropped its first commit (ignored files only) and
\* kept its second.
C5_Witness ==
    /\ pc = "curate_done"
    /\ Len(payloads) = 2
    /\ payloads[1].files # <<>>
    /\ stats.commits_ignored_only = 1
    /\ Len(curated) = 1
    /\ curated[1].sha = 2

--------------------------------------------------------------------------
\* resolve_target, load_release_delta and main.

\* A --release value, as parse_release_input sees it: a plain tag, or a URL
\* (it starts with http:// or https://) that parse_release_url either
\* rejects or splits into owner/repo and tag.
ReleaseValues ==
    [url : {FALSE}, accepted : {TRUE}, repo : {<<>>}, tag : {"", "v1", "v9"}]
    \cup [url : {TRUE}, accepted : {FALSE}, repo : {<<>>}, tag : {""}]
    \cup [url : {TRUE}, accepted : {TRUE}, repo : {<<"o", "/", "r">>}, tag : {"v1"}]

\* --repo and GITHUB_REPOSITORY: empty, owner/repo, or a name without slash.
RepoValues == {<<>>, <<"o", "/", "r">>, <<"r">>}

parse_release_input(value) ==
    IF value.url
    THEN IF value.accepted
         THEN [error |-> FALSE, repo |-> value.repo, tag |-> value.tag]
         ELSE [error |-> TRUE, repo |-> <<>>, tag |-> ""]
    ELSE [error |-> FALSE, repo |-> <<>>, tag |-> value.tag]

\* error is the ValueError; a or b or c picks the first non-empty value
\* (None and "" are both falsy, both are <<>> here).
resolve_target(release_value, repo_arg, env_repo) ==
    LET parsed == parse_release_input(release_value)
        repo == IF repo_arg # <<>> THEN repo_arg
                ELSE IF parsed.repo # <<>> THEN parsed.repo
                ELSE env_repo
    IN  IF parsed.error THEN [error |-> TRUE, target |-> NoTarget]
        ELSE IF repo = <<>> THEN [error |-> TRUE, target |-> NoTarget]
        ELSE IF Slash \notin Range(repo) THEN [error |-> TRUE, target |-> NoTarget]
        ELSE IF parsed.tag = "" THEN [error |-> TRUE, target |-> NoTarget]
        ELSE [error |-> FALSE, target |-> [repo |-> repo, tag |-> parsed.tag]]

\* The items of a commits list: a dict with a sha, or ("") anything else: a
\* dict without sha, or not a dict.
Shas == {"a", "b"}
CommitItems == Shas \cup {""}

\* [str(item.get("sha", "")) for item in ... if isinstance(item, dict) and
\* item.get("sha")]
extract_shas(items) == SelectSeq(items, LAMBDA item : item # "")

\* Lines 417-423: first occurrences, order kept.
RECURSIVE dedup_shas(_, _)
dedup_shas(shas, seen) ==
    IF shas = <<>> THEN <<>>
    ELSE IF Head(shas) = "" \/ Head(shas) \in seen
    THEN dedup_shas(Tail(shas), seen)
    ELSE <<Head(shas)>> \o dedup_shas(Tail(shas), seen \cup {Head(shas)})

\* Python's s[-n:]: the last n elements for n > 0 (all of s when n exceeds
\* its length); s[0:], all of s, for n = 0; s[|n|:] for n < 0.
slice_from_minus(s, n) ==
    IF n > 0 THEN Drop(s, Max(0, Len(s) - n))
    ELSE IF n = 0 THEN s
    ELSE Drop(s, Min(-n, Len(s)))

\* Lines 425-426.
limit_shas(unique, limit) ==
    IF Len(unique) > limit THEN slice_from_minus(unique, limit) ELSE unique

\* Mutant: the commit source does not depend on the previous tag.
delta_source_always_list(previous) == "list_commits"

\* Line 399: which commit source load_release_delta calls.
delta_source(previous) ==
    IF previous # None /\ previous # "" THEN "compare" ELSE "list_commits"

\* Mutant: the GitHubApiError is swallowed and main carries on.
on_api_error_swallowed == [pc |-> "get_commits", exit_code |-> None]

\* Lines 470-472: a GitHubApiError ends main with exit code 1.
on_api_error == [pc |-> "main_exit", exit_code |-> 1]

ApiCall(call, args, ok) == [call |-> call, args |-> args, ok |-> ok]

InitMain ==
    /\ pc = "main"
    /\ target = NoTarget
    /\ max_commits \in -1..MaxCommitsLimit
    /\ output_context_json \in BOOLEAN
    /\ api_log = <<>>
    /\ previous_tag = None
    /\ compare_url = ""
    /\ commit_shas = <<>>
    /\ unique_shas = <<>>
    /\ fetched = 0
    /\ writes = <<>>
    /\ exit_code = None
    /\ PathIdle
    /\ SelectIdle
    /\ CurateIdle
    /\ HighlightsIdle
    /\ PagesIdle
    /\ PromptIdle
    /\ UrlIdle
    /\ BulletsIdle

\* Lines 447-456.
MainResolveTarget ==
    /\ pc = "main"
    /\ \E rv \in ReleaseValues, repo_arg \in RepoValues, env_repo \in RepoValues :
          LET r == resolve_target(rv, repo_arg, env_repo)
          IN  IF r.error
              THEN /\ pc' = "main_exit"
                   /\ exit_code' = 2
                   /\ UNCHANGED target
              ELSE /\ pc' = "list_releases"
                   /\ target' = r.target
                   /\ UNCHANGED exit_code
    /\ UNCHANGED <<pagesVars, promptVars, urlVars, bulletVars,
                   highlightVars, pathVars, selectVars, curateVars, max_commits,
                   output_context_json, api_log, previous_tag, compare_url,
                   commit_shas, unique_shas, fetched, writes>>

\* An API call that raised GitHubApiError.
ApiFailed(call, args) ==
    /\ api_log' = Append(api_log, ApiCall(call, args, FALSE))
    /\ pc' = on_api_error.pc
    /\ exit_code' = on_api_error.exit_code

\* Lines 393-394: client.list_releases() and the previous tag.
DeltaListReleases ==
    /\ pc = "list_releases"
    /\ \/ /\ ApiFailed("list_releases", <<>>)
          /\ UNCHANGED previous_tag
       \/ \E rs \in BoundedSeq(ReleaseSet, MaxReleases) :
             /\ api_log' = Append(api_log, ApiCall("list_releases", <<>>, TRUE))
             /\ previous_tag' = select_previous_release_tag(rs, target.tag)
             /\ pc' = delta_source(previous_tag')
             /\ UNCHANGED exit_code
    /\ UNCHANGED <<pagesVars, promptVars, urlVars, bulletVars,
                   highlightVars, pathVars, selectVars, curateVars, target, max_commits,
                   output_context_json, compare_url, commit_shas, unique_shas,
                   fetched, writes>>

\* The rest of load_release_delta once the commit SHAs are known.
DeltaReturn(shas) ==
    /\ commit_shas' = shas
    /\ unique_shas' = limit_shas(dedup_shas(shas, {}), max_commits)
    /\ pc' = "get_commits"

\* Lines 400-408, then 417-428.
DeltaCompare ==
    /\ pc = "compare"
    /\ \/ /\ ApiFailed("compare", <<previous_tag, target.tag>>)
          /\ UNCHANGED <<pagesVars, promptVars, urlVars, bulletVars,
                   highlightVars, compare_url, commit_shas, unique_shas>>
       \/ \E html_url \in {"", "url"}, is_list \in BOOLEAN,
               items \in BoundedSeq(CommitItems, MaxShas) :
             /\ api_log' = Append(api_log,
                     [call |-> "compare", args |-> <<previous_tag, target.tag>>,
                      ok |-> TRUE, html_url |-> html_url,
                      commits |-> IF is_list THEN items ELSE <<>>,
                      commits_is_list |-> is_list])
             /\ compare_url' = html_url
             /\ DeltaReturn(IF is_list THEN extract_shas(items) ELSE <<>>)
             /\ UNCHANGED exit_code
    /\ UNCHANGED <<pagesVars, promptVars, urlVars, bulletVars,
                   highlightVars, pathVars, selectVars, curateVars, target, max_commits,
                   output_context_json, previous_tag, fetched, writes>>

\* Lines 410-415, then 417-428.
DeltaListCommits ==
    /\ pc = "list_commits"
    /\ \/ /\ ApiFailed("list_commits", <<target.tag, max_commits>>)
          /\ UNCHANGED <<pagesVars, promptVars, urlVars, bulletVars,
                   highlightVars, commit_shas, unique_shas>>
       \/ \E items \in BoundedSeq(CommitItems, MaxShas) :
             /\ api_log' = Append(api_log,
                     [call |-> "list_commits", args |-> <<target.tag, max_commits>>,
                      ok |-> TRUE, commits |-> items])
             /\ DeltaReturn(extract_shas(items))
             /\ UNCHANGED exit_code
    /\ UNCHANGED <<pagesVars, promptVars, urlVars, bulletVars,
                   highlightVars, pathVars, selectVars, curateVars, target, max_commits,
                   output_context_json, previous_tag, compare_url, fetched,
                   writes>>

\* Line 465: one client.get_commit(sha) of the list comprehension.
MainGetCommit ==
    /\ pc = "get_commits"
    /\ fetched < Len(unique_shas)
    /\ \/ /\ ApiFailed("get_commit", <<unique_shas[fetched + 1]>>)
          /\ UNCHANGED fetched
       \/ /\ api_log' = Append(api_log,
                  ApiCall("get_commit", <<unique_shas[fetched + 1]>>, TRUE))
          /\ fetched' = fetched + 1
          /\ UNCHANGED <<pagesVars, promptVars, urlVars, bulletVars,
                   highlightVars, pc, exit_code>>
    /\ UNCHANGED <<pagesVars, promptVars, urlVars, bulletVars,
                   highlightVars, pathVars, selectVars, curateVars, target, max_commits,
                   output_context_json, previous_tag, compare_url, commit_shas,
                   unique_shas, writes>>

\* Lines 466-486: every commit is fetched; curate, build the prompt, write it.
MainWritePrompt ==
    /\ pc = "get_commits"
    /\ fetched = Len(unique_shas)
    /\ writes' = Append(writes, "prompt")
    /\ pc' = "write_context"
    /\ UNCHANGED <<pagesVars, promptVars, urlVars, bulletVars,
                   highlightVars, pathVars, selectVars, curateVars, target, max_commits,
                   output_context_json, api_log, previous_tag, compare_url,
                   commit_shas, unique_shas, fetched, exit_code>>

\* Lines 488-491.
MainReturn ==
    /\ pc = "write_context"
    /\ writes' = IF output_context_json THEN Append(writes, "context") ELSE writes
    /\ pc' = "main_exit"
    /\ exit_code' = 0
    /\ UNCHANGED <<pagesVars, promptVars, urlVars, bulletVars,
                   highlightVars, pathVars, selectVars, curateVars, target, max_commits,
                   output_context_json, api_log, previous_tag, compare_url,
                   commit_shas, unique_shas, fetched>>

NextMain ==
    \/ MainResolveTarget
    \/ DeltaListReleases
    \/ DeltaCompare
    \/ DeltaListCommits
    \/ MainGetCommit
    \/ MainWritePrompt
    \/ MainReturn

SpecMain == InitMain /\ [][NextMain]_vars

--------------------------------------------------------------------------
\* C6 - C8: the release delta and main.

\* load_release_delta has returned to main.
DeltaReturned == Len(api_log) >= 2 /\ api_log[2].ok

\* The elements of s at the positions in P, in order.
RECURSIVE Pick(_, _, _)
Pick(s, P, i) ==
    IF i > Len(s) THEN <<>>
    ELSE (IF i \in P THEN <<s[i]>> ELSE <<>>) \o Pick(s, P, i + 1)

\* s without the repetitions of an earlier element.
FirstOccurrences(s) ==
    Pick(s, {i \in 1..Len(s) : \A j \in 1..(i - 1) : s[j] # s[i]}, 1)

LastN(s, n) == SubSeq(s, Len(s) - n + 1, Len(s))

NoDuplicates(s) == \A i, j \in 1..Len(s) : s[i] = s[j] => i = j

\* C6: for a limit N >= 0, the returned SHAs are the first occurrences of
\* the commit SHAs in order, cut to the last N of them when there are more
\* than N: no duplicates, never more than N entries.
C6_FirstOccurrencesLastN ==
    (DeltaReturned /\ max_commits >= 0) =>
        LET d == FirstOccurrences(commit_shas)
        IN  /\ unique_shas = IF Len(d) > max_commits THEN LastN(d, max_commits) ELSE d
            /\ NoDuplicates(unique_shas)
            /\ Len(unique_shas) <= max_commits

SourceCalls ==
    {i \in 1..Len(api_log) : api_log[i].call \in {"compare", "list_commits"}}

\* C7: list_releases is the first call; at most one commit source is ever
\* called, right after it: compare(previous, current) when a previous tag
\* was selected, list_commits(current, max_commits) otherwise; and when
\* load_release_delta returns exactly one was called, the SHAs and the
\* compare URL being those of the compare payload in the first case, the
\* compare URL empty and the previous tag None in the second.
C7_ExactlyOneCommitSource ==
    /\ \A i \in 1..Len(api_log) : api_log[i].call = "list_releases" <=> i = 1
    /\ Cardinality(SourceCalls) <= 1
    /\ \A i \in SourceCalls :
          /\ i = 2
          /\ api_log[1].ok
          /\ IF previous_tag # None
             THEN /\ api_log[i].call = "compare"
                  /\ api_log[i].args = <<previous_tag, target.tag>>
             ELSE /\ api_log[i].call = "list_commits"
                  /\ api_log[i].args[1] = target.tag
                  /\ api_log[i].args[2] = max_commits
    /\ pc \in {"get_commits", "write_context"} => DeltaReturned
    /\ DeltaReturned =>
          /\ SourceCalls = {2}
          /\ IF previous_tag # None
             THEN /\ api_log[2].call = "compare"
                  /\ compare_url = api_log[2].html_url
                  /\ commit_shas = SelectSeq(api_log[2].commits, LAMBDA x : x \in Shas)
             ELSE /\ api_log[2].call = "list_commits"
                  /\ compare_url = ""
                  /\ commit_shas = SelectSeq(api_log[2].commits, LAMBDA x : x \in Shas)

\* load_release_delta returned after compare(v2, v1), with the payload's URL.
C7_Witness ==
    /\ pc = "get_commits"
    /\ previous_tag = "v2"
    /\ Len(api_log) = 2
    /\ api_log[2].call = "compare"
    /\ api_log[2].args = <<"v2", "v1">>
    /\ compare_url = "url"
    /\ commit_shas = <<"a", "b", "a">>

LastCallFailed == api_log # <<>> /\ ~api_log[Len(api_log)].ok

\* C8: no API call is made before the target is resolved; the calls are
\* list_releases, one commit source, then get_commit per SHA in SHA order; a
\* failed call is the last call made, nothing is written after it and main
\* exits with 1; a file is written only after every call has succeeded;
\* main exits with 2 when the target cannot be resolved, else 1 when a call
\* failed, else 0 having written the prompt (and the context when asked).
C8_WriteOnlyAfterAllCallsSucceed ==
    /\ target = NoTarget => api_log = <<>> /\ writes = <<>>
    /\ \A i \in 1..Len(api_log) :
          /\ i = 1 => api_log[i].call = "list_releases"
          /\ i = 2 => api_log[i].call \in {"compare", "list_commits"}
          /\ i > 2 => /\ api_log[i].call = "get_commit"
                      /\ api_log[i].args = <<unique_shas[i - 2]>>
          /\ ~api_log[i].ok => /\ i = Len(api_log)
                               /\ writes = <<>>
                               /\ pc = "main_exit"
    /\ writes # <<>> =>
          /\ target # NoTarget
          /\ Len(api_log) = 2 + Len(unique_shas)
          /\ \A i \in 1..Len(api_log) : api_log[i].ok
    /\ pc = "main_exit" =>
          /\ exit_code = IF target = NoTarget THEN 2
                         ELSE IF LastCallFailed THEN 1 ELSE 0
          /\ exit_code = 0 =>
                writes = IF output_context_json
                         THEN <<"prompt", "context">> ELSE <<"prompt">>

\* The second get_commit failed: main exited with 1 and wrote nothing.
C8_Witness ==
    /\ pc = "main_exit"
    /\ exit_code = 1
    /\ Len(api_log) = 4
    /\ api_log[3].ok
    /\ ~api_log[4].ok
    /\ api_log[4].call = "get_commit"
    /\ writes = <<>>

--------------------------------------------------------------------------
\* render_release_body.py: extract_change_bullets, extract_pr_titles,
\* classify_title and build_highlights.

Space == " "
\* One token for an attribution "by @user in https://...", and one for the
\* suffix "- autoclosed".
ATTRIBUTION == "by @user in https://x"
AUTOCLOSED == "- autoclosed"

\* str.strip(): leading and trailing whitespace removed.
RECURSIVE lstrip(_)
lstrip(s) == IF s # <<>> /\ Head(s) = Space THEN lstrip(Tail(s)) ELSE s

RECURSIVE rstrip(_)
rstrip(s) ==
    IF s # <<>> /\ s[Len(s)] = Space THEN rstrip(SubSeq(s, 1, Len(s) - 1)) ELSE s

strip(s) == rstrip(lstrip(s))

\* The loop of extract_change_bullets over the remaining lines.
RECURSIVE change_bullets_loop(_, _, _)
change_bullets_loop(lines, limit, bullets) ==
    IF lines = <<>> THEN bullets
    ELSE LET line == strip(Head(lines))
         IN  IF line = <<>> THEN change_bullets_loop(Tail(lines), limit, bullets)
             ELSE LET bullet == strip(Drop(line, 2))
                      kept ==
                          IF /\ \/ StartsWith(line, <<"*", Space>>)
                                \/ StartsWith(line, <<"-", Space>>)
                             /\ bullet # <<>>
                          THEN Append(bullets, bullet)
                          ELSE bullets
                  IN  IF Len(kept) >= limit THEN kept
                      ELSE change_bullets_loop(Tail(lines), limit, kept)

extract_change_bullets(lines, limit) == change_bullets_loop(lines, limit, <<>>)

\* re.sub(r"\s+by\s+@[^ ]+\s+in\s+https?://\S+$", "", bullet).strip()
strip_attribution(bullet) ==
    IF /\ Len(bullet) >= 2
       /\ bullet[Len(bullet)] = ATTRIBUTION
       /\ bullet[Len(bullet) - 1] = Space
    THEN strip(SubSeq(bullet, 1, Len(bullet) - 1))
    ELSE strip(bullet)

\* re.sub(r"\s*-\s*autoclosed\s*$", "", cleaned, flags=re.IGNORECASE)
strip_autoclosed(cleaned) ==
    IF cleaned # <<>> /\ cleaned[Len(cleaned)] = AUTOCLOSED
    THEN rstrip(SubSeq(cleaned, 1, Len(cleaned) - 1))
    ELSE cleaned

\* The limit extract_pr_titles passes to extract_change_bullets.
PR_TITLES_LIMIT == 100

extract_pr_titles(lines) ==
    LET bullets == extract_change_bullets(lines, PR_TITLES_LIMIT)
        cleaned == [i \in 1..Len(bullets) |->
                        strip_autoclosed(strip_attribution(bullets[i]))]
    IN  SelectSeq(cleaned, LAMBDA t : t # <<>>)

\* The substring tests of classify_title, on the words of the title (the
\* word tokens are lower-case already).
classify_title(title) ==
    LET words == Range(title)
    IN  IF /\ "renovate" \in words
           /\ words \cap {"resolve", "repair", "datasource", "regex",
                          "attachment", "digest", "fix("} # {}
        THEN "renovate"
        ELSE IF words \cap {"deps", "dependency", "vs code cli",
                            "pin dependencies", " uv "} # {}
        THEN "dependencies"
        ELSE IF "bump chart version" \in words THEN "release"
        ELSE "other"

\* grouped: the keys in first-seen order (a dict keeps insertion order).
RECURSIVE group_keys(_, _)
group_keys(titles, seen) ==
    IF titles = <<>> THEN <<>>
    ELSE LET key == classify_title(Head(titles))
         IN  IF key \in seen THEN group_keys(Tail(titles), seen)
             ELSE <<key>> \o group_keys(Tail(titles), seen \cup {key})

group_titles(titles, key) == SelectSeq(titles, LAMBDA t : classify_title(t) = key)

\* The bullets one group contributes: one summary sentence for a renovate,
\* dependencies or release group, one sentence per title otherwise.  A
\* bullet is recorded by what it is rendered from, not as rendered text.
group_highlights(key, titles) ==
    IF key \in {"renovate", "dependencies", "release"}
    THEN << [summary |-> key, of |-> titles] >>
    ELSE [i \in 1..Len(titles) |-> [summary |-> "title", of |-> <<titles[i]>>]]

RECURSIVE all_highlights(_, _)
all_highlights(keys, titles) ==
    IF keys = <<>> THEN <<>>
    ELSE group_highlights(Head(keys), group_titles(titles, Head(keys)))
             \o all_highlights(Tail(keys), titles)

\* highlights[:4]
HIGHLIGHTS_LIMIT == 4

\* Mutant: the result is not cut to HIGHLIGHTS_LIMIT bullets.
build_highlights_uncut(t, lines, overrides) ==
    IF overrides # <<>> THEN overrides
    ELSE LET titles == extract_pr_titles(lines)
         IN  IF titles = <<>> THEN << [summary |-> "fallback", of |-> <<t>>] >>
             ELSE all_highlights(group_keys(titles, {}), titles)

build_highlights(t, lines, overrides) ==
    IF overrides # <<>> THEN overrides
    ELSE LET titles == extract_pr_titles(lines)
         IN  IF titles = <<>> THEN << [summary |-> "fallback", of |-> <<t>>] >>
             ELSE Take(all_highlights(group_keys(titles, {}), titles),
                       HIGHLIGHTS_LIMIT)

\* Changelog lines: blank, prose, a "- " bullet with an attribution, an
\* indented "* " bullet of the renovate group, and a bullet that is nothing
\* but the autoclosed suffix.
ChangelogLines ==
    { <<>>,
      <<"w">>,
      <<"-", Space, "w", Space, ATTRIBUTION>>,
      <<Space, "*", Space, "renovate", Space, "resolve">>,
      <<"-", Space, AUTOCLOSED>> }

\* An override bullet, as load_highlights_file returns it.
OverrideBullet == [summary |-> "override", of |-> <<>>]

InitHighlights ==
    /\ pc = "build_highlights"
    /\ tag = "v1"
    /\ changelog \in BoundedSeq(ChangelogLines, MaxLines)
    /\ override_bullets \in {[i \in 1..n |-> OverrideBullet] : n \in 0..MaxOverride}
    /\ highlights = <<>>
    /\ PathIdle
    /\ SelectIdle
    /\ CurateIdle
    /\ MainIdle
    /\ PagesIdle
    /\ PromptIdle
    /\ UrlIdle
    /\ BulletsIdle

BuildHighlights ==
    /\ pc = "build_highlights"
    /\ highlights' = build_highlights(tag, changelog, override_bullets)
    /\ pc' = "highlights_done"
    /\ UNCHANGED <<pagesVars, promptVars, urlVars, bulletVars,
                   tag, changelog, override_bullets, pathVars, selectVars,
                   curateVars, mainVars>>

NextHighlights == BuildHighlights

SpecHighlights == InitHighlights /\ [][NextHighlights]_vars

\* C10 as stated: build_highlights never returns more than 4 bullets.
C10_AtMostFourBullets ==
    pc = "highlights_done" => Len(highlights) <= 4

\* C10 amended: without override bullets (none, or an empty list)
\* build_highlights returns at least 1 and at most 4 bullets, for every tag
\* and changelog; a non-empty list of override bullets is returned as it
\* is, whatever its length.
C10_AtMostFourUnlessOverridden ==
    pc = "highlights_done" =>
        IF override_bullets = <<>>
        THEN Len(highlights) >= 1 /\ Len(highlights) <= 4
        ELSE highlights = override_bullets

\* Five bullet lines, no override: the fifth title was cut off.
C10_Witness ==
    /\ pc = "highlights_done"
    /\ override_bullets = <<>>
    /\ changelog = [i \in 1..5 |-> <<"-", Space, "w", Space, ATTRIBUTION>>]
    /\ Len(highlights) = 4

--------------------------------------------------------------------------
\* GitHubClient.list_releases: the pagination loop.

MaxPerPage == 2
MaxPages == 3
MaxPageItems == 3

\* What self._request hands back for one page: a JSON list of releases, a
\* JSON value that is not a list, or a GitHubApiError raised by the request.
\* The items of a page are named by page number and position.
PageResponses(page) ==
    {[kind |-> "list", items |-> [i \in 1..n |-> <<page, i>>]] : n \in 0..MaxPageItems}
    \cup {[kind |-> "not_list", items |-> <<>>], [kind |-> "error", items |-> <<>>]}

is_last_page_or_exact(chunk, per_page_arg) == Len(chunk) <= per_page_arg

\* The loop's exit test: "if len(chunk) < per_page: break".
is_last_page(chunk, per_page_arg) == Len(chunk) < per_page_arg

InitReleases ==
    /\ pc = "list_releases_loop"
    /\ per_page \in 0..MaxPerPage
    /\ max_pages \in 0..MaxPages
    /\ page_log = <<>>
    /\ listed = <<>>
    /\ list_result = <<>>
    /\ PathIdle
    /\ SelectIdle
    /\ CurateIdle
    /\ MainIdle
    /\ HighlightsIdle
    /\ PromptIdle
    /\ UrlIdle
    /\ BulletsIdle

\* One iteration of "for page in range(1, max_pages + 1)".
ListReleasesPage ==
    /\ pc = "list_releases_loop"
    /\ Len(page_log) < max_pages
    /\ LET page == Len(page_log) + 1
       IN  \E response \in PageResponses(page) :
             /\ page_log' = Append(page_log, [page |-> page, response |-> response])
             /\ IF response.kind # "list"
                THEN /\ pc' = "list_releases_raised"
                     /\ UNCHANGED <<listed, list_result>>
                ELSE /\ listed' = listed \o response.items
                     /\ IF is_last_page(response.items, per_page)
                        THEN /\ pc' = "list_releases_returned"
                             /\ list_result' = listed'
                        ELSE /\ pc' = "list_releases_loop"
                             /\ UNCHANGED list_result
    /\ UNCHANGED <<per_page, max_pages, pathVars, selectVars, curateVars, mainVars,
                   highlightVars, promptVars, urlVars, bulletVars>>

\* The range is exhausted: "return releases".
ListReleasesReturn ==
    /\ pc = "list_releases_loop"
    /\ Len(page_log) >= max_pages
    /\ list_result' = listed
    /\ pc' = "list_releases_returned"
    /\ UNCHANGED <<per_page, max_pages, page_log, listed, pathVars, selectVars,
                   curateVars, mainVars, highlightVars, promptVars, urlVars, bulletVars>>

NextReleases == ListReleasesPage \/ ListReleasesReturn

SpecReleases == InitReleases /\ [][NextReleases]_vars

--------------------------------------------------------------------------
\* C11.

RECURSIVE Concat(_)
Concat(seqs) == IF seqs = <<>> THEN <<>> ELSE Head(seqs) \o Concat(Tail(seqs))

FullPage(entry) ==
    /\ entry.response.kind = "list"
    /\ Len(entry.response.items) >= per_page

ShortPage(entry) ==
    /\ entry.response.kind = "list"
    /\ Len(entry.response.items) < per_page

LastEntry == page_log[Len(page_log)]

\* C11: list_releases requests pages 1, 2, 3, ... in order and never more
\* than max_pages of them; every page before the last one requested was a
\* list of at least per_page items, so the loop stops right after the first
\* shorter page; it is still running only while every page so far was full;
\* it returns the concatenation, in page order, of exactly the pages it
\* requested, and it returns only after a short page or after page
\* max_pages; a page that is not a list (or whose request failed) is the
\* last one requested and ends the call with an API error.
C11_PagesInOrderUntilShortPage ==
    /\ \A i \in 1..Len(page_log) : page_log[i].page = i
    /\ Len(page_log) <= max_pages
    /\ \A i \in 1..(Len(page_log) - 1) : FullPage(page_log[i])
    /\ pc = "list_releases_loop" =>
          /\ \A i \in 1..Len(page_log) : FullPage(page_log[i])
          /\ listed = Concat([i \in 1..Len(page_log) |-> page_log[i].response.items])
    /\ pc = "list_releases_returned" =>
          /\ \A i \in 1..Len(page_log) : page_log[i].response.kind = "list"
          /\ list_result = Concat([i \in 1..Len(page_log) |-> page_log[i].response.items])
          /\ \/ Len(page_log) = max_pages
             \/ /\ page_log # <<>>
                /\ ShortPage(LastEntry)
          /\ (page_log # <<>> /\ Len(page_log) < max_pages) => ShortPage(LastEntry)
    /\ pc = "list_releases_raised" <=>
          /\ page_log # <<>>
          /\ LastEntry.response.kind # "list"

\* A full first page was followed by a short second page and the two were
\* returned, although more pages were allowed.
C11_Witness ==
    /\ pc = "list_releases_returned"
    /\ per_page > 0
    /\ Len(page_log) = 2
    /\ Len(page_log) < max_pages
    /\ Len(page_log[1].response.items) = per_page
    /\ Len(list_result) > per_page

--------------------------------------------------------------------------
\* curate_commit_payloads as one function, and build_prompt on its output
\* (main, lines 465-486).

MaxPromptCommits == 2
MaxPromptFiles == 2

Newline == "\n"

RECURSIVE until_newline(_)
until_newline(text) ==
    IF text = <<>> \/ Head(text) = Newline THEN <<>>
    ELSE <<Head(text)>> \o until_newline(Tail(text))

\* str.splitlines(): the lines between newlines; a newline at the very end
\* does not open another line.
RECURSIVE splitlines(_)
splitlines(text) ==
    IF text = <<>> THEN <<>>
    ELSE LET line == until_newline(text)
         IN  <<line>> \o splitlines(Drop(text, Len(line) + 1))

\* The string's strip() also removes newlines.
RECURSIVE strip_whitespace(_)
strip_whitespace(text) ==
    IF text # <<>> /\ Head(text) \in {Space, Newline}
    THEN strip_whitespace(Tail(text))
    ELSE IF text # <<>> /\ text[Len(text)] \in {Space, Newline}
    THEN strip_whitespace(Take(text, Len(text) - 1))
    ELSE text

first_line(text) ==
    IF strip_whitespace(text) # <<>>
    THEN strip_whitespace(splitlines(strip_whitespace(text))[1])
    ELSE <<>>

NO_COMMIT_SUBJECT == <<"(no commit subject)">>

extract_commit_subject(payload) ==
    IF first_line(payload.message) # <<>>
    THEN first_line(payload.message)
    ELSE NO_COMMIT_SUBJECT

\* The inner loop over one files list.
RECURSIVE curate_files(_, _)
curate_files(acc, files) ==
    IF files = <<>> THEN acc
    ELSE curate_files(curate_file(acc, Head(files)), Tail(files))

\* The outer loop; out holds curated, stats and the remaining budget.
RECURSIVE curate_commits(_, _)
curate_commits(out, commits) ==
    IF commits = <<>> THEN out
    ELSE LET payload == Head(commits)
             acc == curate_files([shipping_files |-> <<>>,
                                  ignored_files |-> <<>>,
                                  budget |-> out.budget], payload.files)
             done == finish_commit(out.curated, out.stats, payload.sha,
                                   acc.shipping_files, acc.ignored_files)
         IN  curate_commits([curated |-> done.curated, stats |-> done.stats,
                             budget |-> acc.budget], Tail(commits))

curate_commit_payloads(commits, budget) ==
    curate_commits([curated |-> <<>>,
                    stats |-> [NoStats EXCEPT !.total_commits = Len(commits)],
                    budget |-> budget], commits)

\* The context main builds: the curated commits, each with the subject and
\* the URL of its payload (the sha of the i-th payload is i), and the stats.
prompt_context_of(commits, budget) ==
    LET out == curate_commit_payloads(commits, budget)
    IN  [commits |-> [i \in 1..Len(out.curated) |->
                        [sha |-> out.curated[i].sha,
                         subject |-> extract_commit_subject(commits[out.curated[i].sha]),
                         shipping_files |-> out.curated[i].shipping_files,
                         ignored_files |-> out.curated[i].ignored_files]],
         stats |-> out.stats]

FILE_LINE_PREFIX == <<Space, Space, "- file: ">>
PATCH_HEADER == <<Space, Space, Space, Space, "patch:">>
PATCH_LINE_INDENT == <<Space, Space, Space, Space, Space, Space>>
NO_DETAILS_LINE == <<"- No shipping-relevant commit/file details were extracted.">>
LISTING_HEADER == <<"Curated commit and code context:">>

\* The indentation of the template's lines inside the f-string.
TEMPLATE_INDENT == <<Space, Space, Space, Space, Space, Space, Space, Space>>

\* The file sub-line (status and counts are not modelled: "unknown", 0, 0)
\* and the indented patch lines of one entry of shipping_files.
file_lines(file_info) ==
    <<FILE_LINE_PREFIX \o file_info.filename \o <<Space, "[unknown, +0/-0]">>>>
    \o (IF file_info.patch # <<>>
        THEN <<PATCH_HEADER>>
             \o [i \in 1..Len(splitlines(file_info.patch)) |->
                    PATCH_LINE_INDENT \o splitlines(file_info.patch)[i]]
        ELSE <<>>)

\* Mutant: the listing also gets a file line for every ignored file.
commit_lines_with_ignored(commit) ==
    <<(<<"- ", ToString(commit.sha), Space>> \o commit.subject \o <<" (", "html_url", ")">>)>>
    \o Concat([i \in 1..Len(commit.shipping_files) |-> file_lines(commit.shipping_files[i])])
    \o [i \in 1..Len(commit.ignored_files) |->
           FILE_LINE_PREFIX \o commit.ignored_files[i] \o <<Space, "[unknown, +0/-0]">>]

\* The lines the loop appends for one curated commit.
commit_lines(commit) ==
    <<(<<"- ", ToString(commit.sha), Space>> \o commit.subject \o <<" (", "html_url", ")">>)>>
    \o Concat([i \in 1..Len(commit.shipping_files) |-> file_lines(commit.shipping_files[i])])

\* The fixed part of the template above the listing, before it is indented;
\* the release metadata is not part of the modelled context, so its lines
\* show the defaults.
prompt_head(stats_arg) ==
    << <<"You are writing release highlights for humans.">>,
       <<>>,
       <<"Output contract:">>,
       <<"- Return ONLY markdown bullet lines.">>,
       <<"- Output 3 to 6 bullets.">>,
       <<"- Each line MUST start with \"- \".">>,
       <<"- No headings, no preamble, no code fences, no JSON.">>,
       <<"- Focus only on shipped behavior and noteworthy user/developer impact.">>,
       <<"- Merge related low-level changes into cohesive high-level bullets.">>,
       <<"- Ignore release workflow churn, CI plumbing, docs-only edits, and script-only release process changes unless they directly affect shipped runtime behavior.">>,
       <<>>,
       <<"Release metadata:">>,
       <<"- Repository: ">>,
       <<"- Current tag: ">>,
       <<"- Previous release tag: ", "(none)">>,
       <<"- Compare URL: ", "(not available)">>,
       <<>>,
       <<"Context quality stats:">>,
       <<"- Total commits inspected: ", ToString(stats_arg.total_commits)>>,
       <<"- Commits with shipping-relevant file changes: ",
         ToString(stats_arg.commits_with_shipping_changes)>>,
       <<"- Commits ignored as non-shipping-only: ",
         ToString(stats_arg.commits_ignored_only)>>,
       <<"- Shipping files considered: ", ToString(stats_arg.shipping_files)>>,
       <<"- Ignored files filtered: ", ToString(stats_arg.ignored_files)>>,
       <<>>,
       LISTING_HEADER >>

\* The f-string before dedent: a first empty line, the template's lines at
\* the template's indentation (its empty lines stay empty), the joined
\* commit_lines placed after that indentation, so that only the first of
\* them is indented, and the indentation before the closing quotes.
template_lines(head, listing) ==
    <<(<<>>)>>
    \o [i \in 1..Len(head) |-> IF head[i] = <<>> THEN <<>> ELSE TEMPLATE_INDENT \o head[i]]
    \o <<TEMPLATE_INDENT \o Head(listing)>>
    \o Tail(listing)
    \o <<TEMPLATE_INDENT>>

IsBlank(line) == \A i \in 1..Len(line) : line[i] = Space

leading_spaces(line) == Len(line) - Len(lstrip(line))

\* textwrap.dedent: whitespace-only lines become empty, and the leading
\* whitespace common to all other lines is removed from each of them.
dedent(lines) ==
    LET text_lines == {i \in 1..Len(lines) : ~IsBlank(lines[i])}
        margin == IF text_lines = {} THEN 0
                  ELSE CHOOSE m \in {leading_spaces(lines[i]) : i \in text_lines} :
                          \A i \in text_lines : m <= leading_spaces(lines[i])
    IN  [i \in 1..Len(lines) |->
            IF IsBlank(lines[i]) THEN <<>> ELSE Drop(lines[i], margin)]

\* str.strip() on a text given as its lines: whitespace-only lines at both
\* ends go, and so does the whitespace before the first and after the last
\* remaining character.
RECURSIVE strip_lines(_)
strip_lines(lines) ==
    IF lines = <<>> THEN <<>>
    ELSE IF IsBlank(Head(lines)) THEN strip_lines(Tail(lines))
    ELSE IF IsBlank(lines[Len(lines)]) THEN strip_lines(Take(lines, Len(lines) - 1))
    ELSE IF Len(lines) = 1 THEN <<strip(lines[1])>>
    ELSE <<lstrip(Head(lines))>>
         \o SubSeq(lines, 2, Len(lines) - 1)
         \o <<rstrip(lines[Len(lines)])>>

\* build_prompt, as the lines of the returned text.
build_prompt(context) ==
    LET listing == Concat([i \in 1..Len(context.commits) |->
                              commit_lines(context.commits[i])])
    IN  strip_lines(dedent(template_lines(
            prompt_head(context.stats),
            IF listing = <<>> THEN <<NO_DETAILS_LINE>> ELSE listing)))

\* Commit messages: blank, and two lines whose first mentions a docs file.
PromptMessages ==
    { <<>>, <<"u", Space, "docs", "/", "x", Newline, "v">> }

\* File entries: a source file with a two-line patch, a docs file, a README
\* and a source file in a directory named README.
PromptFileEntries ==
    { [is_dict |-> TRUE, filename |-> <<"x">>, patch |-> <<"a", Newline, "b">>],
      [is_dict |-> TRUE, filename |-> <<"docs", "/", "x">>, patch |-> <<"a">>],
      [is_dict |-> TRUE, filename |-> <<"README">>, patch |-> <<>>],
      [is_dict |-> TRUE, filename |-> <<"README", "/", "x">>, patch |-> <<>>] }

FileLists(n) == UNION {[1..k -> PromptFileEntries] : k \in 0..n}

\* The lists of at most c payloads with at most f file entries altogether,
\* numbered from sha on.
RECURSIVE PayloadLists(_, _, _)
PayloadLists(sha, c, f) ==
    {<<>>} \cup
    IF c = 0 THEN {}
    ELSE UNION { UNION { { <<[sha |-> sha, message |-> m, files |-> fs]>> \o rest :
                           rest \in PayloadLists(sha + 1, c - 1, f - Len(fs)) } :
                         m \in PromptMessages } :
                 fs \in FileLists(f) }

InitPrompt ==
    /\ pc = "curate_and_build_prompt"
    /\ commit_payloads \in PayloadLists(1, MaxPromptCommits, MaxPromptFiles)
    /\ prompt_budget \in {0, MaxBudget}
    /\ prompt_context = <<>>
    /\ prompt = <<>>
    /\ PathIdle
    /\ SelectIdle
    /\ CurateIdle
    /\ MainIdle
    /\ HighlightsIdle
    /\ PagesIdle
    /\ UrlIdle
    /\ BulletsIdle

\* main, lines 465-486: curate the payloads and render the prompt.
BuildPrompt ==
    /\ pc = "curate_and_build_prompt"
    /\ LET context == prompt_context_of(commit_payloads, prompt_budget)
       IN  /\ prompt_context' = context.commits
           /\ prompt' = build_prompt(context)
    /\ pc' = "prompt_done"
    /\ UNCHANGED <<commit_payloads, prompt_budget, pathVars, selectVars, curateVars,
                   mainVars, highlightVars, pagesVars, urlVars, bulletVars>>

NextPrompt == BuildPrompt

SpecPrompt == InitPrompt /\ [][NextPrompt]_vars

--------------------------------------------------------------------------
\* C12.

\* sub occurs in line as a run of consecutive tokens.
Contains(line, sub) ==
    \E k \in 0..(Len(line) - Len(sub)) : SubSeq(line, k + 1, k + Len(sub)) = sub

\* The file entries of all given payloads, in order.
InputFiles == Concat([i \in 1..Len(commit_payloads) |-> commit_payloads[i].files])

IsNamed(f) == f.is_dict /\ f.filename # <<>>

IsShippingInput(f) == IsNamed(f) /\ ~is_ignored_path(f.filename)

\* The filenames curation classified as ignored, and as shipping.
IgnoredNames ==
    {InputFiles[i].filename : i \in {j \in 1..Len(InputFiles) :
        IsNamed(InputFiles[j]) /\ is_ignored_path(InputFiles[j].filename)}}

ShippingNames ==
    LET shipping == SelectSeq(InputFiles, IsShippingInput)
    IN  [i \in 1..Len(shipping) |-> shipping[i].filename]

\* A file line: "- file: " after no more than the two spaces of its prefix.
IsFileLine(line) ==
    /\ leading_spaces(line) <= 2
    /\ lstrip(line) # <<>>
    /\ Head(lstrip(line)) = "- file: "

\* The filenames shown on the prompt's file lines, in order: what stands
\* between "- file: " and the status bracket.
ListedNames ==
    LET shown == SelectSeq(prompt, IsFileLine)
    IN  [i \in 1..Len(shown) |-> SubSeq(lstrip(shown[i]), 2, Len(lstrip(shown[i])) - 2)]

\* The part of the prompt below the listing header.
Listing == Drop(prompt, Len(prompt_head(NoStats)))

NoIgnoredFilenameInPrompt ==
    \A n \in IgnoredNames : \A i \in 1..Len(prompt) : ~Contains(prompt[i], n)

FileLinesOnlyForShippingFiles ==
    /\ ListedNames = ShippingNames
    /\ \A i \in 1..Len(ListedNames) : ~is_ignored_path(ListedNames[i])

PlaceholderIffNothingCurated ==
    /\ (\E i \in 1..Len(prompt) : prompt[i] = NO_DETAILS_LINE) <=> prompt_context = <<>>
    /\ prompt_context = <<>> <=> ShippingNames = <<>>
    /\ prompt_context = <<>> => Listing = <<NO_DETAILS_LINE>>

\* C12 as stated: no line of the prompt contains the filename of a file that
\* curation classified as ignored; file lines are shown only for shipping
\* files; the placeholder line is shown exactly when no commit survived.
C12_PromptNeverContainsIgnoredFilename ==
    pc = "prompt_done" =>
        /\ NoIgnoredFilenameInPrompt
        /\ FileLinesOnlyForShippingFiles
        /\ PlaceholderIffNothingCurated

\* C12, amended: the file lines of the listing are, in order, exactly the
\* shipping files of the given commits, so none of them names an ignored
\* file; the single placeholder line is the whole listing exactly when no
\* commit survived curation, which is when no commit has a shipping file.
C12_FileLinesOnlyForShippingFiles ==
    pc = "prompt_done" =>
        /\ FileLinesOnlyForShippingFiles
        /\ PlaceholderIffNothingCurated

\* A curated commit with a shipping file and an ignored file was rendered.
C12_Witness ==
    /\ pc = "prompt_done"
    /\ \E i \in 1..Len(prompt_context) : prompt_context[i].ignored_files # <<>>
    /\ ListedNames # <<>>
    /\ IgnoredNames # {}

--------------------------------------------------------------------------
\* parse_release_url.  A URL is the token sequence
\*   <<scheme, "://", host, "/", segment, "/", segment, ...>>.

MaxUrlParts == 5

SchemeSeparator == "://"
PercentSpace == "%20"

\* urllib.parse.urlparse on such a URL: the netloc is what stands between
\* "://" and the next slash, the path is the rest.
urlparse(u) ==
    IF Len(u) >= 2 /\ u[2] = SchemeSeparator
    THEN LET rest == Drop(u, 2)
             netloc == IF rest # <<>> /\ Head(rest) # Slash THEN Head(rest) ELSE ""
             after == IF rest # <<>> /\ Head(rest) # Slash THEN Tail(rest) ELSE rest
         IN  [scheme |-> u[1], netloc |-> netloc, path |-> after]
    ELSE [scheme |-> "", netloc |-> "", path |-> u]

\* "/".join(parts)
RECURSIVE join_slash(_)
join_slash(parts) ==
    IF parts = <<>> THEN <<>>
    ELSE IF Len(parts) = 1 THEN parts[1]
    ELSE parts[1] \o <<Slash>> \o join_slash(Tail(parts))

\* urllib.parse.unquote: a percent escape becomes its character.
unquote(text) == [i \in 1..Len(text) |-> IF text[i] = PercentSpace THEN Space ELSE text[i]]

ACCEPTED_HOSTS == {"github.com", "www.github.com"}

\* Mutant: the host is not checked.
parse_release_url_any_host(u) ==
    LET parsed == urlparse(u)
        parts == Split(strip_slash(parsed.path))
    IN  IF Len(parts) < 5 \/ parts[3] # <<"releases">> \/ parts[4] # <<"tag">>
        THEN [error |-> "ValueError", repo |-> <<>>, tag |-> <<>>]
        ELSE LET owner == parts[1]
                 repo == parts[2]
                 tag_part == strip(unquote(join_slash(Drop(parts, 4))))
             IN  IF owner = <<>> \/ repo = <<>> \/ tag_part = <<>>
                 THEN [error |-> "ValueError", repo |-> <<>>, tag |-> <<>>]
                 ELSE [error |-> None, repo |-> owner \o <<Slash>> \o repo,
                       tag |-> tag_part]

parse_release_url(u) ==
    LET parsed == urlparse(u)
        parts == Split(strip_slash(parsed.path))
    IN  IF parsed.netloc \notin ACCEPTED_HOSTS
        THEN [error |-> "ValueError", repo |-> <<>>, tag |-> <<>>]
        ELSE IF Len(parts) < 5 \/ parts[3] # <<"releases">> \/ parts[4] # <<"tag">>
        THEN [error |-> "ValueError", repo |-> <<>>, tag |-> <<>>]
        ELSE LET owner == parts[1]
                 repo == parts[2]
                 tag_part == strip(unquote(join_slash(Drop(parts, 4))))
             IN  IF owner = <<>> \/ repo = <<>> \/ tag_part = <<>>
                 THEN [error |-> "ValueError", repo |-> <<>>, tag |-> <<>>]
                 ELSE [error |-> None, repo |-> owner \o <<Slash>> \o repo,
                       tag |-> tag_part]

\* The schemes parse_release_input hands on, three hosts, and paths of up
\* to MaxUrlParts segments; an empty segment is a doubled or trailing slash.
UrlSchemes == {"https", "http"}
UrlHosts == {"github.com", "www.github.com", "example.com"}
UrlSegments == {<<>>, <<"o">>, <<"releases">>, <<"tag">>, <<PercentSpace>>}

UrlPaths ==
    {Concat([i \in 1..Len(segs) |-> <<Slash>> \o segs[i]]) :
        segs \in BoundedSeq(UrlSegments, MaxUrlParts)}

Urls ==
    {<<scheme, SchemeSeparator, host>> \o p :
        scheme \in UrlSchemes, host \in UrlHosts, p \in UrlPaths}

InitUrl ==
    /\ pc = "parse_release_url"
    /\ url \in Urls
    /\ url_result = NoUrlResult
    /\ url_error = None
    /\ PathIdle
    /\ SelectIdle
    /\ CurateIdle
    /\ MainIdle
    /\ HighlightsIdle
    /\ PagesIdle
    /\ PromptIdle
    /\ BulletsIdle

ParseReleaseUrl ==
    /\ pc = "parse_release_url"
    /\ LET r == parse_release_url(url)
       IN  /\ url_error' = r.error
           /\ url_result' = [repo |-> r.repo, tag |-> r.tag]
           /\ pc' = IF r.error = None THEN "url_returned" ELSE "url_raised"
    /\ UNCHANGED <<url, pathVars, selectVars, curateVars, mainVars, highlightVars,
                   pagesVars, promptVars, bulletVars>>

NextUrl == ParseReleaseUrl

SpecUrl == InitUrl /\ [][NextUrl]_vars

--------------------------------------------------------------------------
\* C13.

UrlScheme == url[1]
UrlHost == url[3]
UrlPathSegments == Segments(Drop(url, 3))

\* The path is /<owner>/<repo>/releases/tag/<tag>: owner and repo are
\* non-empty, and <tag>, which is all that follows "tag/", is not blank
\* once decoded.
CanonicalPath ==
    /\ Len(UrlPathSegments) >= 5
    /\ UrlPathSegments[1] # <<>>
    /\ UrlPathSegments[2] # <<>>
    /\ UrlPathSegments[3] = <<"releases">>
    /\ UrlPathSegments[4] = <<"tag">>
    /\ strip(unquote(join_slash(Drop(UrlPathSegments, 4)))) # <<>>

UrlDone == pc \in {"url_returned", "url_raised"}

RejectedWithoutTarget ==
    /\ pc = "url_raised"
    /\ url_error = "ValueError"
    /\ url_result = NoUrlResult

ReturnsOwnerRepoAndTag ==
    /\ pc = "url_returned"
    /\ url_error = None
    /\ url_result.repo = UrlPathSegments[1] \o <<Slash>> \o UrlPathSegments[2]
    /\ url_result.tag = strip(unquote(join_slash(Drop(UrlPathSegments, 4))))

\* C13 as stated: exactly the URLs https://github.com/<owner>/<repo>/
\* releases/tag/<tag> are accepted and yield (owner/repo, tag); a URL with
\* another host, or with another path shape, is rejected with a ValueError
\* and yields no target.
C13_OnlyHttpsGithubCom ==
    UrlDone =>
        IF UrlScheme = "https" /\ UrlHost = "github.com" /\ CanonicalPath
        THEN ReturnsOwnerRepoAndTag
        ELSE RejectedWithoutTarget

\* C13, amended: the scheme is not examined and the host may be github.com
\* or www.github.com; with such a host and a path of the canonical shape
\* the result is (owner/repo, tag), and every other host or path shape is
\* rejected with a ValueError and yields no target.
C13_GithubHostAndCanonicalPath ==
    UrlDone =>
        IF UrlHost \in {"github.com", "www.github.com"} /\ CanonicalPath
        THEN ReturnsOwnerRepoAndTag
        ELSE RejectedWithoutTarget

\* A canonical URL on www.github.com was accepted.
C13_Witness ==
    /\ pc = "url_returned"
    /\ UrlHost = "www.github.com"
    /\ url_result.tag # <<>>

--------------------------------------------------------------------------
\* C14 (specification SpecCurate).

\* The file entries consumed so far, over all commits, in order.
EntriesInOrder ==
    Concat([i \in 1..Len(payloads) |-> payloads[i].files])
    \o (IF pc = "file_loop" THEN files_seen ELSE <<>>)

\* The patch texts of the shipping files among them: the inputs of the
\* patches in AllShippingFiles, position by position.
ShippingPatchTexts ==
    LET shipping == SelectSeq(EntriesInOrder, IsShippingInput)
    IN  [i \in 1..Len(shipping) |-> shipping[i].patch]

HasMarker(patch) ==
    /\ Len(patch) >= Len(TRUNCATION_MARKER)
    /\ SubSeq(patch, Len(patch) - Len(TRUNCATION_MARKER) + 1, Len(patch)) = TRUNCATION_MARKER

MarkedPatches == {i \in 1..Len(AllShippingFiles) : HasMarker(AllShippingFiles[i].patch)}

\* C14: at most one curated patch carries the truncation marker; it is the
\* first patch longer than the budget left when it is processed (the budget
\* given, less the patch texts before it), it is that many characters of
\* its text followed by the marker, every patch before it is the whole
\* patch text of its file, and the budget is 0 from then on.
C14_AtMostOneTruncatedPatch ==
    pc \in {"commit_loop", "file_loop", "curate_done"} =>
        LET out == AllShippingFiles
            texts == ShippingPatchTexts
            marked == {i \in 1..Len(out) : HasMarker(out[i].patch)}
            BudgetBefore(i) == max_patch_chars - SumLen(SubSeq(texts, 1, i - 1))
        IN  /\ Len(texts) = Len(out)
            /\ Cardinality(marked) <= 1
            /\ \A i \in marked :
                  /\ Len(texts[i]) > BudgetBefore(i)
                  /\ \A j \in 1..(i - 1) :
                        /\ Len(texts[j]) <= BudgetBefore(j)
                        /\ out[j].patch = texts[j]
                  /\ out[i].patch = Take(texts[i], BudgetBefore(i)) \o TRUNCATION_MARKER
                  /\ remaining_patch_budget = 0

\* A first patch was emitted whole, the second one was truncated, and a
\* third patch text came out empty.
C14_Witness ==
    /\ pc = "curate_done"
    /\ Len(AllShippingFiles) = 3
    /\ MarkedPatches = {2}
    /\ AllShippingFiles[1].patch # <<>>
    /\ ShippingPatchTexts[3] # <<>>
    /\ AllShippingFiles[3].patch = <<>>

--------------------------------------------------------------------------
\* extract_change_bullets called on its own, with any limit.

MaxLimit == 2

\* Changelog lines: blank, prose, a "- " bullet, an indented "* " bullet
\* with a trailing space, and a marker without content.
BulletLines ==
    { <<>>,
      <<"w">>,
      <<"-", Space, "w">>,
      <<Space, "*", Space, "v", Space>>,
      <<"-", Space>> }

InitBullets ==
    /\ pc = "extract_change_bullets"
    /\ changelog \in BoundedSeq(BulletLines, MaxLines)
    /\ bullet_limit \in 0..MaxLimit
    /\ change_bullets = <<>>
    /\ tag = ""
    /\ override_bullets = <<>>
    /\ highlights = <<>>
    /\ PathIdle
    /\ SelectIdle
    /\ CurateIdle
    /\ MainIdle
    /\ PagesIdle
    /\ PromptIdle
    /\ UrlIdle

ExtractChangeBullets ==
    /\ pc = "extract_change_bullets"
    /\ change_bullets' = extract_change_bullets(changelog, bullet_limit)
    /\ pc' = "bullets_done"
    /\ UNCHANGED <<bullet_limit, highlightVars, pathVars, selectVars, curateVars,
                   mainVars, pagesVars, promptVars, urlVars>>

NextBullets == ExtractChangeBullets

SpecBullets == InitBullets /\ [][NextBullets]_vars

--------------------------------------------------------------------------
\* C15.

\* A line that, trimmed, starts with "- " or "* " and has content after the
\* marker.
IsBulletLine(line) ==
    /\ \/ StartsWith(strip(line), <<"-", Space>>)
       \/ StartsWith(strip(line), <<"*", Space>>)
    /\ strip(Drop(strip(line), 2)) # <<>>

\* The contents of all such lines of the changelog, in order.
AllBullets ==
    LET hits == SelectSeq(changelog, IsBulletLine)
    IN  [i \in 1..Len(hits) |-> strip(Drop(strip(hits[i]), 2))]

\* C15: for every changelog and every limit, the result has at most limit
\* bullets: the contents of the first limit bullet lines, in order, or of
\* all of them when there are fewer.
C15_FirstLimitBullets ==
    pc = "bullets_done" =>
        /\ Len(change_bullets) <= bullet_limit
        /\ change_bullets = Take(AllBullets, bullet_limit)

==========================================================================
